---- MODULE Spec2Model ----
(***************************************************************************)
(* Load forecasting, overflow alerting and spare dispatch of the transport *)
(* system (schedules/views.py, zonaladmin/views.py,                        *)
(* zonaladmin/logic/alert_engine.py, demand/models.py, schedules/models.py)*)
(*                                                                         *)
(* The database is the state: one variable per table that the handlers     *)
(* read or write.  Each request handler is one action.  Rows are records   *)
(* carrying the model fields that the handlers use.                        *)
(***************************************************************************)
EXTENDS Integers, Sequences, FiniteSets, TLC

VARIABLES
    today,       \* timezone.localdate(): the calendar day of the wall clock
    stops,       \* routes.Stop rows
    preinforms,  \* preinforms.PreInform rows
    schedules,   \* schedules.Schedule rows
    buses,       \* schedules.Bus rows, keyed by id
    alerts,      \* demand.DemandAlert rows
    response,    \* what the last handler answered
    inflight     \* the requests being served step by step, by request number

vars == <<today, stops, preinforms, schedules, buses, alerts, response, inflight>>

----------------------------------------------------------------------------
(* Bounds of the model *)

MaxPreInforms == 2      \* PreInform rows held at once
MaxAlerts == 3          \* DemandAlert rows held at once
MaxSchedules == 3       \* Schedule rows held at once
MaxStopSequence == 3    \* largest stop_sequence a driver reports
MaxPeople == 60         \* largest number_of_people of an alert whose level is read

----------------------------------------------------------------------------
(* Values *)

\* Python's None (an absent zone, an absent overflow stop, a null foreign key)
None == -1

Dates == {1, 2}            \* 1 is today, 2 is tomorrow
Buses == {1, 2}
Drivers == {1, 2}          \* users with role = "driver"

\* Route.zone: route r is managed by zone r
RouteZone(r) == r

StopRow(S, id) == CHOOSE s \in S : s.id = id

\* Stop.objects.get(id=...).route.zone
StopZone(S, id) == RouteZone(StopRow(S, id).route)

\* queryset.order_by("sequence") on stops of one route (sequence is unique per route)
RECURSIVE OrderBySequence(_)
OrderBySequence(S) ==
    IF S = {} THEN <<>>
    ELSE LET m == CHOOSE x \in S : \A y \in S : x.sequence <= y.sequence
         IN  <<m>> \o OrderBySequence(S \ {m})

\* Sum("passenger_count") over a set of pre-inform rows
RECURSIVE SumPassengerCount(_)
SumPassengerCount(P) ==
    IF P = {} THEN 0
    ELSE LET p == CHOOSE x \in P : TRUE
         IN  p.passenger_count + SumPassengerCount(P \ {p})

Max(a, b) == IF a >= b THEN a ELSE b

----------------------------------------------------------------------------
(* schedules/views.py: compute_future_load_for_schedule *)

\* capacity = schedule.total_seats or (schedule.bus.capacity if schedule.bus else None);
\* None becomes 0
FutureCapacity(schedule) ==
    IF schedule.total_seats # 0 THEN schedule.total_seats
    ELSE buses[schedule.bus].capacity

\* The pre-informs the forecast query selects: same route and date, boarding stop
\* after the current stop.  No filter on status.
FuturePreInforms(schedule) ==
    {p \in preinforms :
        /\ p.route = schedule.route
        /\ p.date_of_travel = schedule.date
        /\ StopRow(stops, p.boarding_stop).sequence > schedule.current_stop_sequence}

\* future_demand.get(seq, 0)
FutureDemand(schedule, seq) ==
    SumPassengerCount({p \in FuturePreInforms(schedule) :
                          StopRow(stops, p.boarding_stop).sequence = seq})

FutureStart(schedule) ==
    [running_load |-> schedule.current_passengers,
     stops_output |-> <<>>,
     will_overflow |-> FALSE,
     overflow_from_stop_seq |-> None]

\* FutureStep with the overflow stop overwritten at every overflowing stop
FutureStepLastOverflow(acc, schedule, capacity, stop) ==
    LET seq == stop.sequence
        incoming == FutureDemand(schedule, seq)
        predicted_after == acc.running_load + incoming
        overflow_here == predicted_after > capacity
    IN  IF seq <= schedule.current_stop_sequence THEN acc
        ELSE [running_load |-> predicted_after,
              stops_output |-> Append(acc.stops_output,
                                  [sequence |-> seq,
                                   incoming_preinform |-> incoming,
                                   predicted_after |-> predicted_after,
                                   overflow |-> overflow_here]),
              will_overflow |-> acc.will_overflow \/ overflow_here,
              overflow_from_stop_seq |->
                  IF overflow_here THEN seq ELSE acc.overflow_from_stop_seq]

\* FutureStep with the current stop taken as a future stop (< for <=)
FutureStepFromCurrent(acc, schedule, capacity, stop) ==
    LET seq == stop.sequence
        incoming == FutureDemand(schedule, seq)
        predicted_after == acc.running_load + incoming
        overflow_here == predicted_after > capacity
        first == overflow_here /\ ~acc.will_overflow
    IN  IF seq < schedule.current_stop_sequence THEN acc
        ELSE [running_load |-> predicted_after,
              stops_output |-> Append(acc.stops_output,
                                  [sequence |-> seq,
                                   incoming_preinform |-> incoming,
                                   predicted_after |-> predicted_after,
                                   overflow |-> overflow_here]),
              will_overflow |-> acc.will_overflow \/ overflow_here,
              overflow_from_stop_seq |->
                  IF first THEN seq ELSE acc.overflow_from_stop_seq]

\* FutureStep without "running_load = predicted_after"
FutureStepNoCarry(acc, schedule, capacity, stop) ==
    LET seq == stop.sequence
        incoming == FutureDemand(schedule, seq)
        predicted_after == acc.running_load + incoming
        overflow_here == predicted_after > capacity
        first == overflow_here /\ ~acc.will_overflow
    IN  IF seq <= schedule.current_stop_sequence THEN acc
        ELSE [running_load |-> acc.running_load,
              stops_output |-> Append(acc.stops_output,
                                  [sequence |-> seq,
                                   incoming_preinform |-> incoming,
                                   predicted_after |-> predicted_after,
                                   overflow |-> overflow_here]),
              will_overflow |-> acc.will_overflow \/ overflow_here,
              overflow_from_stop_seq |->
                  IF first THEN seq ELSE acc.overflow_from_stop_seq]

\* One turn of the loop over the route's stops
FutureStep(acc, schedule, capacity, stop) ==
    LET seq == stop.sequence
        incoming == FutureDemand(schedule, seq)
        predicted_after == acc.running_load + incoming
        overflow_here == predicted_after > capacity
        first == overflow_here /\ ~acc.will_overflow
    IN  IF seq <= schedule.current_stop_sequence THEN acc
        ELSE [running_load |-> predicted_after,
              stops_output |-> Append(acc.stops_output,
                                  [sequence |-> seq,
                                   incoming_preinform |-> incoming,
                                   predicted_after |-> predicted_after,
                                   overflow |-> overflow_here]),
              will_overflow |-> acc.will_overflow \/ overflow_here,
              overflow_from_stop_seq |->
                  IF first THEN seq ELSE acc.overflow_from_stop_seq]

RECURSIVE FutureWalk(_, _, _, _)
FutureWalk(schedule, capacity, ordered, k) ==
    IF k = 0 THEN FutureStart(schedule)
    ELSE FutureStep(FutureWalk(schedule, capacity, ordered, k - 1),
                    schedule, capacity, ordered[k])

compute_future_load_for_schedule(schedule) ==
    LET capacity == FutureCapacity(schedule)
        ordered == OrderBySequence({s \in stops : s.route = schedule.route})
        w == FutureWalk(schedule, capacity, ordered, Len(ordered))
    IN  [schedule_id |-> schedule.id,
         capacity |-> capacity,
         current_stop_sequence |-> schedule.current_stop_sequence,
         current_passengers |-> schedule.current_passengers,
         future_stops |-> w.stops_output,
         will_overflow |-> w.will_overflow,
         overflow_from_stop_sequence |-> w.overflow_from_stop_seq]

----------------------------------------------------------------------------
(* zonaladmin/logic/alert_engine.py: compute_bus_load_for_schedule         *)
(* (the definition at line 293, which replaces the one at line 93)         *)

DefaultCapacity == 40

\* capacity = schedule.total_seats or getattr(schedule.bus, "capacity", None) or 40
BusLoadCapacity(schedule) ==
    IF schedule.total_seats # 0 THEN schedule.total_seats
    ELSE IF buses[schedule.bus].capacity # 0 THEN buses[schedule.bus].capacity
    ELSE DefaultCapacity

\* PreInform.objects.filter(route=route, date_of_travel=date, status="noted")
BusLoadPreInforms(schedule) ==
    {p \in preinforms :
        /\ p.route = schedule.route
        /\ p.date_of_travel = schedule.date
        /\ p.status = "noted"}

\* .values("boarding_stop", ...).order_by("boarding_stop__sequence"): the boarding
\* stops that have a row, in sequence order
BusLoadGroups(schedule) ==
    OrderBySequence({s \in stops :
        \E p \in BusLoadPreInforms(schedule) : p.boarding_stop = s.id})

BusLoadStep(acc, schedule, capacity, stop) ==
    LET boarding == SumPassengerCount({p \in BusLoadPreInforms(schedule) :
                                          p.boarding_stop = stop.id})
        running == acc.running + boarding
    IN  [running |-> running,
         max_load |-> Max(acc.max_load, running),
         rows |-> Append(acc.rows,
                     [stop_id |-> stop.id,
                      sequence |-> stop.sequence,
                      boarding |-> boarding,
                      expected_load |-> running,
                      over_capacity |-> running > capacity,
                      \* ratio = running / capacity, kept as the pair
                      ratio_num |-> running,
                      ratio_den |-> capacity])]

RECURSIVE BusLoadWalk(_, _, _, _)
BusLoadWalk(schedule, capacity, grouped, k) ==
    IF k = 0 THEN [running |-> schedule.current_passengers,
                   max_load |-> schedule.current_passengers,
                   rows |-> <<>>]
    ELSE BusLoadStep(BusLoadWalk(schedule, capacity, grouped, k - 1),
                     schedule, capacity, grouped[k])

compute_bus_load_for_schedule(schedule) ==
    LET capacity == BusLoadCapacity(schedule)
        grouped == BusLoadGroups(schedule)
        w == BusLoadWalk(schedule, capacity, grouped, Len(grouped))
    IN  [schedule_id |-> schedule.id,
         capacity |-> capacity,
         base_passengers |-> schedule.current_passengers,
         rows |-> w.rows,
         max_load |-> w.max_load]

----------------------------------------------------------------------------
(* Users (users/models.py: CustomUser.role, .zone, .is_superuser) *)

ZonalAdmin1 == 3
ZonalAdmin2 == 4
Superuser == 5
Users == Drivers \cup {ZonalAdmin1, ZonalAdmin2, Superuser}

UserRole(u) ==
    IF u \in Drivers THEN "driver"
    ELSE IF u \in {ZonalAdmin1, ZonalAdmin2} THEN "zonal_admin"
    ELSE "admin"

\* user.zone_id
UserZone(u) ==
    IF u = ZonalAdmin1 THEN 1
    ELSE IF u = ZonalAdmin2 THEN 2
    ELSE IF u \in Drivers THEN u
    ELSE None

IsSuperuser(u) == u = Superuser

----------------------------------------------------------------------------
(* DemandAlert rows.  admin_notes is the text as the list of the pieces    *)
(* that were written into it, in order; each piece is one of the three     *)
(* f-strings of the code.                                                  *)

NotePiece(kind, for_date, schedule, count) ==
    [kind |-> kind, for_date |-> for_date, schedule |-> schedule, count |-> count]

\* admin_notes__icontains=needle, piece by piece, from the literal text:
\*   "preinform":  "System (Pre-Informs) - auto from NOTED pre-informs for {date}.
\*                  Total expected passengers: {count}."
\*   "prediction": "Prediction: Bus on schedule #{id} for route {n} is expected to
\*                  reach {LEVEL} load at stop '{name}' (expected {load} passengers,
\*                  capacity {cap}). Base inside bus: {base}. Source: NOTED
\*                  pre-informs for {date}."
\*   "dispatch":   " Spare bus {plate} dispatched from stop '{name}' (seq: {n})
\*                  (schedule #{id})."
PieceIContains(kind, needle) ==
    CASE needle = "Pre-Informs" -> kind \in {"preinform", "prediction"}
      [] needle = "Prediction:" -> kind = "prediction"
      [] needle = "Prediction (Bus load)" -> FALSE
      [] OTHER -> FALSE

NotesIContain(notes, needle) ==
    \E i \in 1..Len(notes) : PieceIContains(notes[i].kind, needle)

AlertIds(A) == {a.id : a \in A}

\* The id of a new row.  Ids only name rows: the id of a deleted row is taken
\* again, every reference to a deleted row having been nulled (on_delete=SET_NULL).
FreshAlertId(A) == CHOOSE i \in 1..(Cardinality(A) + 1) : i \notin AlertIds(A)

\* DemandAlert.objects.create(user=None, stop=, number_of_people=, status="reported",
\* admin_notes=), created_at = now (auto_now_add)
CreateAlert(A, stop, count, notes) ==
    A \cup {[id |-> FreshAlertId(A),
             stop |-> stop,
             number_of_people |-> count,
             status |-> "reported",
             created_at |-> today,
             admin_notes |-> notes]}

\* base_alerts without the zone filter
BaseAlertsAnyZone(A, for_date, zone, marker) ==
    {a \in A : a.created_at = for_date /\ NotesIContain(a.admin_notes, marker)}

\* base_alerts of both generators: created on for_date, notes containing the marker,
\* stop in the zone when a zone is given.  No filter on status.
BaseAlerts(A, for_date, zone, marker) ==
    {a \in A :
        /\ a.created_at = for_date
        /\ NotesIContain(a.admin_notes, marker)
        /\ (zone # None => StopZone(stops, a.stop) = zone)}

----------------------------------------------------------------------------
(* zonaladmin/logic/alert_engine.py: generate_demand_alerts                *)
(* P is the PreInform table the call reads                                 *)

DemandQs(P, for_date, zone) ==
    {p \in P :
        /\ p.date_of_travel = for_date
        /\ p.status = "noted"
        /\ (zone # None => RouteZone(p.route) = zone)}

RECURSIVE OrderById(_)
OrderById(S) ==
    IF S = {} THEN <<>>
    ELSE LET m == CHOOSE x \in S : \A y \in S : x.id <= y.id
         IN  <<m>> \o OrderById(S \ {m})

\* qs.values("boarding_stop").annotate(total_people=Sum("passenger_count")) as the
\* list of the boarding stops that have a row (the query states no order: by id)
DemandGroups(P, for_date, zone) ==
    OrderById({t \in stops : \E p \in DemandQs(P, for_date, zone) : p.boarding_stop = t.id})

DemandCreateStep(A, P, for_date, zone, stop_id) ==
    LET count == SumPassengerCount({p \in DemandQs(P, for_date, zone) :
                                       p.boarding_stop = stop_id})
    IN  CreateAlert(A, stop_id, count,
                    <<NotePiece("preinform", for_date, None, count)>>)

RECURSIVE DemandCreateLoop(_, _, _, _, _, _)
DemandCreateLoop(A, P, for_date, zone, grouped, k) ==
    IF k = 0 THEN A
    ELSE DemandCreateStep(DemandCreateLoop(A, P, for_date, zone, grouped, k - 1),
                          P, for_date, zone, grouped[k].id)

DemandDelete(A, for_date, zone) == A \ BaseAlerts(A, for_date, zone, "Pre-Informs")

\* The alert table after generate_demand_alerts(for_date, zone) on table A
generate_demand_alerts(A, P, for_date, zone) ==
    IF DemandQs(P, for_date, zone) = {} THEN A
    ELSE LET grouped == DemandGroups(P, for_date, zone)
         IN  DemandCreateLoop(DemandDelete(A, for_date, zone),
                              P, for_date, zone, grouped, Len(grouped))

----------------------------------------------------------------------------
(* zonaladmin/logic/alert_engine.py: generate_prediction_alerts *)

PredictionQs(for_date, zone) ==
    {s \in schedules :
        /\ s.date = for_date
        /\ buses[s.bus].is_running
        /\ (zone # None => RouteZone(s.route) = zone)}

\* The schedules in Meta.ordering (date, departure_time), then by id
RECURSIVE OrderSchedules(_)
OrderSchedules(S) ==
    IF S = {} THEN <<>>
    ELSE LET m == CHOOSE x \in S : \A y \in S :
                     \/ x.departure_time < y.departure_time
                     \/ (x.departure_time = y.departure_time /\ x.id <= y.id)
         IN  <<m>> \o OrderSchedules(S \ {m})

\* level of one row: load <= 0 -> none; load > cap -> critical;
\* ratio >= 0.9 -> high; otherwise none
PredictionLevel(row, cap) ==
    IF row.expected_load <= 0 THEN "none"
    ELSE IF row.expected_load > cap THEN "critical"
    ELSE IF 10 * row.ratio_num >= 9 * row.ratio_den THEN "high"
    ELSE "none"

PredictionRowStep(A, for_date, schedule, data, row) ==
    LET level == PredictionLevel(row, data.capacity)
    IN  IF level = "none" THEN A
        ELSE CreateAlert(A, row.stop_id, row.expected_load,
                 <<NotePiece("prediction", for_date, schedule.id, row.expected_load)>>)

RECURSIVE PredictionRowLoop(_, _, _, _, _)
PredictionRowLoop(A, for_date, schedule, data, k) ==
    IF k = 0 THEN A
    ELSE PredictionRowStep(PredictionRowLoop(A, for_date, schedule, data, k - 1),
                           for_date, schedule, data, data.rows[k])

RECURSIVE PredictionScheduleLoop(_, _, _, _)
PredictionScheduleLoop(A, for_date, ordered, k) ==
    IF k = 0 THEN A
    ELSE LET data == compute_bus_load_for_schedule(ordered[k])
         IN  PredictionRowLoop(PredictionScheduleLoop(A, for_date, ordered, k - 1),
                               for_date, ordered[k], data, Len(data.rows))

PredictionDelete(A, for_date, zone) == A \ BaseAlerts(A, for_date, zone, "Prediction:")

\* The alert table after generate_prediction_alerts(for_date, zone) on table A
generate_prediction_alerts(A, for_date, zone) ==
    IF PredictionQs(for_date, zone) = {} THEN A
    ELSE LET ordered == OrderSchedules(PredictionQs(for_date, zone))
         IN  PredictionScheduleLoop(PredictionDelete(A, for_date, zone),
                                    for_date, ordered, Len(ordered))

\* Schedule.source_alert is on_delete=SET_NULL: the schedules after the alert table
\* went from A to B (a row of B that was not in A under that id is another row)
NullDeletedAlerts(S, A, B) ==
    {IF s.source_alert # None /\ ~(\E a \in A \cap B : a.id = s.source_alert)
        THEN [s EXCEPT !.source_alert = None] ELSE s : s \in S}

----------------------------------------------------------------------------
(* Request handlers.  Every handler leaves its answer in response.         *)

ScheduleIds == {s.id : s \in schedules}
ScheduleRow(id) == CHOOSE s \in schedules : s.id = id
PreInformRow(id) == CHOOSE p \in preinforms : p.id = id
AlertRow(id) == CHOOSE a \in alerts : a.id = id

Answer(op, status, success, value) ==
    [op |-> op, status |-> status, success |-> success, value |-> value, error |-> ""]

AnswerError(op, status, error) ==
    [op |-> op, status |-> status, success |-> FALSE, value |-> None, error |-> error]

\* redirect(...): the same answer whatever the handler did before it
Redirect(op) == Answer(op, 302, FALSE, None)

\* user.is_staff: the superuser
IsStaff(u) == IsSuperuser(u)

\* A permission test that lets every user through
NotAssignedDriverNever(schedule, user) == FALSE

\* schedule.driver_id != user.id and not user.is_superuser
NotAssignedDriver(schedule, user) ==
    schedule.driver # user /\ ~IsSuperuser(user)

\* A guard that lets every update through
IsBackwardUpdateNever(stop_sequence, old_seq) == FALSE

\* schedules/views.py update_current_stop: the guard against moving backwards
IsBackwardUpdate(stop_sequence, old_seq) == stop_sequence < old_seq

\* A save that also moves the start of the trip
SaveCurrentStopAndStart(schedule, stop_sequence) ==
    [schedule EXCEPT !.current_stop_sequence = stop_sequence,
                     !.starting_stop_sequence = stop_sequence]

\* schedule.current_stop_sequence = stop_sequence;
\* schedule.save(update_fields=["current_stop_sequence"])
SaveCurrentStop(schedule, stop_sequence) ==
    [schedule EXCEPT !.current_stop_sequence = stop_sequence]

update_current_stop(user, schedule_id, stop_sequence) ==
    IF stop_sequence <= 0
    THEN /\ response' = Answer("update_current_stop", 400, FALSE, None)
         /\ UNCHANGED <<inflight, today, stops, preinforms, schedules, buses, alerts>>
    ELSE IF schedule_id \notin ScheduleIds
    THEN /\ response' = Answer("update_current_stop", 404, FALSE, None)
         /\ UNCHANGED <<inflight, today, stops, preinforms, schedules, buses, alerts>>
    ELSE LET schedule == ScheduleRow(schedule_id)
             old_seq == schedule.current_stop_sequence
         IN  IF NotAssignedDriver(schedule, user)
             THEN /\ response' = Answer("update_current_stop", 403, FALSE, None)
                  /\ UNCHANGED <<inflight, today, stops, preinforms, schedules, buses, alerts>>
             ELSE IF IsBackwardUpdate(stop_sequence, old_seq)
             THEN /\ response' = Answer("update_current_stop", 200, FALSE,
                                    [schedule_id |-> schedule.id,
                                     stop_sequence |-> stop_sequence,
                                     current_stop_sequence |-> old_seq])
                  /\ UNCHANGED <<inflight, today, stops, preinforms, schedules, buses, alerts>>
             ELSE /\ schedules' = (schedules \ {schedule}) \cup
                        {SaveCurrentStop(schedule, stop_sequence)}
                  /\ response' = Answer("update_current_stop", 200, TRUE,
                                    [schedule_id |-> schedule.id,
                                     stop_sequence |-> stop_sequence,
                                     current_stop_sequence |-> stop_sequence])
                  /\ UNCHANGED <<inflight, today, stops, preinforms, buses, alerts>>

\* schedules/models.py Schedule.set_passenger_count
set_passenger_count(schedule, count) ==
    [schedule EXCEPT !.current_passengers = Max(0, count),
                     !.available_seats = Max(0, schedule.total_seats - Max(0, count))]

update_passenger_count(user, schedule_id, count) ==
    IF count < 0
    THEN /\ response' = Answer("update_passenger_count", 400, FALSE, None)
         /\ UNCHANGED <<inflight, today, stops, preinforms, schedules, buses, alerts>>
    ELSE IF schedule_id \notin ScheduleIds
    THEN /\ response' = Answer("update_passenger_count", 404, FALSE, None)
         /\ UNCHANGED <<inflight, today, stops, preinforms, schedules, buses, alerts>>
    ELSE LET schedule == ScheduleRow(schedule_id)
         IN  IF NotAssignedDriver(schedule, user)
             THEN /\ response' = Answer("update_passenger_count", 403, FALSE, None)
                  /\ UNCHANGED <<inflight, today, stops, preinforms, schedules, buses, alerts>>
             ELSE /\ schedules' = (schedules \ {schedule}) \cup
                        {set_passenger_count(schedule, count)}
                  /\ response' = Answer("update_passenger_count", 200, TRUE, count)
                  /\ UNCHANGED <<inflight, today, stops, preinforms, buses, alerts>>

\* schedules/views.py update_bus_location; position stands for (latitude, longitude),
\* 0 for a missing or zero coordinate
update_bus_location(user, bus_id, schedule_id, position) ==
    IF position = 0
    THEN /\ response' = Answer("update_bus_location", 400, FALSE, None)
         /\ UNCHANGED <<inflight, today, stops, preinforms, schedules, buses, alerts>>
    ELSE IF bus_id \notin Buses \/ schedule_id \notin ScheduleIds
    THEN /\ response' = Answer("update_bus_location", 404, FALSE, None)
         /\ UNCHANGED <<inflight, today, stops, preinforms, schedules, buses, alerts>>
    ELSE LET schedule == ScheduleRow(schedule_id)
         IN  IF NotAssignedDriver(schedule, user)
             THEN /\ response' = Answer("update_bus_location", 403, FALSE, None)
                  /\ UNCHANGED <<inflight, today, stops, preinforms, schedules, buses, alerts>>
             ELSE /\ buses' = [buses EXCEPT ![bus_id] =
                        [@ EXCEPT !.location = position,
                                  !.is_running = TRUE,
                                  !.current_route = schedule.route,
                                  !.current_schedule = schedule.id]]
                  /\ response' = Answer("update_bus_location", 200, TRUE, None)
                  /\ UNCHANGED <<inflight, today, stops, preinforms, schedules, alerts>>

\* schedules/views.py schedule_forecast_view
schedule_forecast_view(user, schedule_id) ==
    /\ schedule_id \in ScheduleIds
    /\ LET schedule == ScheduleRow(schedule_id)
       IN  response' =
             IF schedule.driver # user /\ ~(IsStaff(user) \/ IsSuperuser(user))
             THEN Answer("schedule_forecast_view", 403, FALSE, None)
             ELSE Answer("schedule_forecast_view", 200, TRUE,
                         compute_future_load_for_schedule(schedule))
    /\ UNCHANGED <<inflight, today, stops, preinforms, schedules, buses, alerts>>

\* zonaladmin/views.py schedule_load_prediction
schedule_load_prediction(user, schedule_id) ==
    /\ schedule_id \in ScheduleIds
    /\ LET schedule == ScheduleRow(schedule_id)
       IN  response' =
             IF UserRole(user) = "zonal_admin" /\ RouteZone(schedule.route) # UserZone(user)
             THEN Redirect("schedule_load_prediction")
             ELSE Answer("schedule_load_prediction", 200, TRUE,
                         compute_bus_load_for_schedule(schedule))
    /\ UNCHANGED <<inflight, today, stops, preinforms, schedules, buses, alerts>>

----------------------------------------------------------------------------
(* zonaladmin/views.py: operator handlers *)

\* filter_zone(queryset, user) on DemandAlert rows
filter_zone_alerts(A, user) ==
    IF IsSuperuser(user) \/ UserRole(user) = "admin" THEN A
    ELSE IF UserRole(user) = "zonal_admin" /\ UserZone(user) # None
         THEN {a \in A : StopZone(stops, a.stop) = UserZone(user)}
         ELSE {}

\* zone of zonal_demand_alerts and of the dispatch page: the zonal admin's zone
OperatorZone(user) ==
    IF UserRole(user) = "zonal_admin" /\ UserZone(user) # None
    THEN UserZone(user) ELSE None

\* The alert table after both generators, as zonal_demand_alerts runs them
RefreshAlerts(A, for_date, zone) ==
    generate_prediction_alerts(generate_demand_alerts(A, preinforms, for_date, zone),
                               for_date, zone)

zonal_demand_alerts(user, selected_date) ==
    LET zone == OperatorZone(user)
        after == RefreshAlerts(alerts, selected_date, zone)
        base_qs == filter_zone_alerts({a \in after : a.created_at = selected_date}, user)
    IN  /\ Cardinality(after) <= MaxAlerts
        /\ alerts' = after
        /\ schedules' = NullDeletedAlerts(schedules, alerts, after)
        /\ response' = Answer("zonal_demand_alerts", 200, TRUE,
              [date |-> selected_date,
               zone |-> zone,
               preinform_alerts |->
                   {a.id : a \in {b \in base_qs :
                                    NotesIContain(b.admin_notes, "Pre-Informs")}},
               prediction_alerts |->
                   {a.id : a \in {b \in base_qs :
                                    NotesIContain(b.admin_notes, "Prediction (Bus load)")}}])
        /\ UNCHANGED <<inflight, today, stops, preinforms, buses>>

\* user.is_superuser or role in ["admin", "zonal_admin"]
IsOperator(user) ==
    IsSuperuser(user) \/ UserRole(user) \in {"admin", "zonal_admin"}

mark_preinform_noted(user, preinform_id) ==
    IF ~IsOperator(user)
    THEN /\ response' = Redirect("mark_preinform_noted")
         /\ UNCHANGED <<inflight, today, stops, preinforms, schedules, buses, alerts>>
    ELSE IF preinform_id \notin {p.id : p \in preinforms}
    THEN /\ response' = Answer("mark_preinform_noted", 404, FALSE, None)
         /\ UNCHANGED <<inflight, today, stops, preinforms, schedules, buses, alerts>>
    ELSE LET preinform == PreInformRow(preinform_id)
         IN  IF \/ (UserRole(user) = "zonal_admin"
                       /\ RouteZone(preinform.route) # UserZone(user))
                \/ preinform.status \notin {"pending", "noted"}
             THEN /\ response' = Redirect("mark_preinform_noted")
                  /\ UNCHANGED <<inflight, today, stops, preinforms, schedules, buses, alerts>>
             ELSE /\ preinforms' = (preinforms \ {preinform}) \cup
                        {[preinform EXCEPT !.status = "noted"]}
                  \* generate_demand_alerts reads the saved row
                  /\ LET saved == (preinforms \ {preinform}) \cup
                                     {[preinform EXCEPT !.status = "noted"]}
                         after == IF UserZone(user) # None
                                  THEN generate_demand_alerts(alerts, saved,
                                           preinform.date_of_travel, UserZone(user))
                                  ELSE alerts
                     IN  /\ Cardinality(after) <= MaxAlerts
                         /\ alerts' = after
                         /\ schedules' = NullDeletedAlerts(schedules, alerts, after)
                  /\ response' = Redirect("mark_preinform_noted")
                  /\ UNCHANGED <<inflight, today, stops, buses>>

cancel_preinform(user, preinform_id) ==
    IF ~IsOperator(user)
    THEN /\ response' = Redirect("cancel_preinform")
         /\ UNCHANGED <<inflight, today, stops, preinforms, schedules, buses, alerts>>
    ELSE IF preinform_id \notin {p.id : p \in preinforms}
    THEN /\ response' = Answer("cancel_preinform", 404, FALSE, None)
         /\ UNCHANGED <<inflight, today, stops, preinforms, schedules, buses, alerts>>
    ELSE LET preinform == PreInformRow(preinform_id)
         IN  IF \/ (UserRole(user) = "zonal_admin"
                       /\ RouteZone(preinform.route) # UserZone(user))
                \/ preinform.status \notin {"pending", "noted"}
             THEN /\ response' = Redirect("cancel_preinform")
                  /\ UNCHANGED <<inflight, today, stops, preinforms, schedules, buses, alerts>>
             ELSE /\ preinforms' = (preinforms \ {preinform}) \cup
                        {[preinform EXCEPT !.status = "cancelled"]}
                  /\ response' = Redirect("cancel_preinform")
                  /\ UNCHANGED <<inflight, today, stops, schedules, buses, alerts>>

\* unique_together of Schedule: (bus, date, departure_time), (driver, date, departure_time)
BusSlotTaken(bus_id, sched_date, departure_time) ==
    \E s \in schedules :
        s.bus = bus_id /\ s.date = sched_date /\ s.departure_time = departure_time

DriverSlotTaken(driver_id, sched_date, departure_time) ==
    \E s \in schedules :
        s.driver = driver_id /\ s.date = sched_date /\ s.departure_time = departure_time

\* A lookup that never finds the bus's schedule
ExistingScheduleNone(bus_id, sched_date, departure_time) == FALSE

\* existing_schedule of dispatch_spare_bus
ExistingSchedule(bus_id, sched_date, departure_time) ==
    BusSlotTaken(bus_id, sched_date, departure_time)

\* A spare trip that starts at the head of the route
SpareScheduleFromOrigin(alert, bus_id, driver_id, sched_date, departure_time) ==
    [id |-> Cardinality(schedules) + 1,
     route |-> StopRow(stops, alert.stop).route,
     bus |-> bus_id,
     driver |-> driver_id,
     date |-> sched_date,
     departure_time |-> departure_time,
     total_seats |-> buses[bus_id].capacity,
     available_seats |-> buses[bus_id].capacity,
     current_passengers |-> 0,
     current_stop_sequence |-> 0,
     starting_stop_sequence |-> 0,
     is_spare_trip |-> TRUE,
     source_alert |-> alert.id]

\* Schedule.objects.create(...) of dispatch_spare_bus
SpareSchedule(alert, bus_id, driver_id, sched_date, departure_time) ==
    LET overflow_stop == StopRow(stops, alert.stop)
    IN  [id |-> Cardinality(schedules) + 1,
         route |-> overflow_stop.route,
         bus |-> bus_id,
         driver |-> driver_id,
         date |-> sched_date,
         departure_time |-> departure_time,
         total_seats |-> buses[bus_id].capacity,
         available_seats |-> buses[bus_id].capacity,
         current_passengers |-> 0,
         current_stop_sequence |-> overflow_stop.sequence,
         starting_stop_sequence |-> overflow_stop.sequence,
         is_spare_trip |-> TRUE,
         source_alert |-> alert.id]

\* A bus row linked to the schedule but left idle
RunningOnIdle(bus, schedule) ==
    [bus EXCEPT !.current_route = schedule.route,
                !.current_schedule = schedule.id]

\* bus_obj.is_running = True; current_route = route; current_schedule = schedule
RunningOn(bus, schedule) ==
    [bus EXCEPT !.is_running = TRUE,
                !.current_route = schedule.route,
                !.current_schedule = schedule.id]

\* An alert whose notes are replaced by the dispatch note
DispatchedAlertOverwritten(alert, schedule_id) ==
    [alert EXCEPT !.status = "dispatched",
                  !.admin_notes = <<NotePiece("dispatch", None, schedule_id, None)>>]

\* alert.status = "dispatched"; admin_notes = admin_notes + extra_note
DispatchedAlert(alert, schedule_id) ==
    [alert EXCEPT !.status = "dispatched",
                  !.admin_notes = Append(alert.admin_notes,
                                     NotePiece("dispatch", None, schedule_id, None))]

\* POST to dispatch_spare_bus; departure_time = None is an unparsable time
dispatch_spare_bus(user, alert_id, bus_id, driver_id, sched_date, departure_time) ==
    IF alert_id \notin AlertIds(alerts)
    THEN /\ response' = AnswerError("dispatch_spare_bus", 404, "alert")
         /\ UNCHANGED <<inflight, today, stops, preinforms, schedules, buses, alerts>>
    ELSE LET alert == AlertRow(alert_id)
         IN
         IF OperatorZone(user) # None /\ StopZone(stops, alert.stop) # UserZone(user)
         THEN /\ response' = Redirect("dispatch_spare_bus")
              /\ UNCHANGED <<inflight, today, stops, preinforms, schedules, buses, alerts>>
         ELSE IF departure_time = None
         THEN /\ response' = AnswerError("dispatch_spare_bus", 200, "missing")
              /\ UNCHANGED <<inflight, today, stops, preinforms, schedules, buses, alerts>>
         ELSE IF bus_id \notin Buses \/ driver_id \notin Drivers
         THEN /\ response' = AnswerError("dispatch_spare_bus", 404, "bus or driver")
              /\ UNCHANGED <<inflight, today, stops, preinforms, schedules, buses, alerts>>
         ELSE IF ExistingSchedule(bus_id, sched_date, departure_time)
         THEN /\ response' = [AnswerError("dispatch_spare_bus", 200, "conflict")
                            EXCEPT !.value = [bus |-> bus_id, date |-> sched_date,
                                              departure_time |-> departure_time]]
              /\ UNCHANGED <<inflight, today, stops, preinforms, schedules, buses, alerts>>
         ELSE IF \/ BusSlotTaken(bus_id, sched_date, departure_time)
                 \/ DriverSlotTaken(driver_id, sched_date, departure_time)
         \* Schedule.objects.create raises IntegrityError: nothing is written
         THEN /\ response' = AnswerError("dispatch_spare_bus", 500, "IntegrityError")
              /\ UNCHANGED <<inflight, today, stops, preinforms, schedules, buses, alerts>>
         ELSE LET schedule == SpareSchedule(alert, bus_id, driver_id,
                                            sched_date, departure_time)
              IN  /\ Cardinality(schedules) < MaxSchedules
                  /\ schedules' = schedules \cup {schedule}
                  /\ buses' = [buses EXCEPT ![bus_id] = RunningOn(@, schedule)]
                  /\ alerts' = (alerts \ {alert}) \cup
                                   {DispatchedAlert(alert, schedule.id)}
                  /\ response' = Redirect("dispatch_spare_bus")
                  /\ UNCHANGED <<inflight, today, stops, preinforms>>

----------------------------------------------------------------------------
(* Riders: filing a pre-inform *)

\* preinforms/serializers.py PreInformCreateSerializer.validate: the boarding stop is
\* on the route and a later stop of the route exists for the exit; status = "pending"
CanBoardAt(stop_id) ==
    \E b \in stops : b.id = stop_id /\
        \E d \in stops : d.route = b.route /\ d.sequence > b.sequence

NewPreInform(P, stop_id, date_of_travel, passenger_count, status) ==
    [id |-> Cardinality(P) + 1,
     route |-> StopRow(stops, stop_id).route,
     date_of_travel |-> date_of_travel,
     boarding_stop |-> stop_id,
     passenger_count |-> passenger_count,
     status |-> status]

create_preinform(stop_id, date_of_travel, passenger_count) ==
    /\ Cardinality(preinforms) < MaxPreInforms
    /\ CanBoardAt(stop_id)
    /\ preinforms' = preinforms \cup
          {NewPreInform(preinforms, stop_id, date_of_travel, passenger_count, "pending")}
    /\ response' = Answer("create_preinform", 201, TRUE, None)
    /\ UNCHANGED <<inflight, today, stops, schedules, buses, alerts>>

----------------------------------------------------------------------------
(* The tables every specification starts from *)

\* Route 1 (zone 1): stops 1..5 at sequences 1..5; route 2 (zone 2): stops 6, 7
StopTable ==
    {[id |-> i, route |-> 1, sequence |-> i] : i \in 1..5}
    \cup {[id |-> 5 + i, route |-> 2, sequence |-> i] : i \in 1..2}

BusRow(capacity, is_running, current_route, current_schedule) ==
    [capacity |-> capacity,
     is_active |-> TRUE,
     is_running |-> is_running,
     current_route |-> current_route,
     current_schedule |-> current_schedule,
     location |-> None]

\* A schedule as assign_bus_view creates it (seats from the bus), later edited in
\* the admin site (total_seats) and driven (current_passengers, current_stop_sequence)
ScheduleRow1(total_seats, current_passengers, current_stop_sequence) ==
    [id |-> 1,
     route |-> 1,
     bus |-> 1,
     driver |-> 1,
     date |-> 1,
     departure_time |-> 1,
     total_seats |-> total_seats,
     available_seats |-> Max(0, total_seats - current_passengers),
     current_passengers |-> current_passengers,
     current_stop_sequence |-> current_stop_sequence,
     starting_stop_sequence |-> 0,
     is_spare_trip |-> FALSE,
     source_alert |-> None]

NoResponse == Answer("none", 0, FALSE, None)

\* No request is being served step by step: every handler runs in one step
NoRequests == <<>>

----------------------------------------------------------------------------
(* SpecForecast: the forecast functions on drawn inputs                    *)

ForecastLoads == {30, 35}
ForecastPositions == {1, 3}

\* (boarding stop, date of travel, passenger count, status) of a drawn pre-inform
ForecastPreInformChoices ==
    {<<3, 1, 5, "noted">>, <<3, 1, 8, "noted">>, <<4, 1, 8, "noted">>,
     <<4, 1, 8, "pending">>, <<3, 1, 8, "cancelled">>,
     <<4, 2, 8, "noted">>, <<6, 1, 8, "noted">>}

InitForecast ==
    /\ today = 1
    /\ stops = StopTable
    /\ \E capacity \in {0, DefaultCapacity} :
         /\ buses = [b \in Buses |->
                       IF b = 1 THEN BusRow(capacity, TRUE, 1, 1)
                       ELSE BusRow(DefaultCapacity, FALSE, None, None)]
         /\ \E total_seats \in {0, capacity},
               current_passengers \in ForecastLoads,
               current_stop_sequence \in ForecastPositions :
              schedules = {ScheduleRow1(total_seats, current_passengers,
                                        current_stop_sequence)}
    /\ \E n \in 0..MaxPreInforms :
         \E f \in [1..n -> ForecastPreInformChoices] :
            preinforms = {[id |-> i,
                           route |-> StopRow(StopTable, f[i][1]).route,
                           date_of_travel |-> f[i][2],
                           boarding_stop |-> f[i][1],
                           passenger_count |-> f[i][3],
                           status |-> f[i][4]] : i \in 1..n}
    /\ alerts = {}
    /\ response = NoResponse
    /\ inflight = NoRequests

NextForecast ==
    \/ \E user \in Drivers, schedule_id \in ScheduleIds :
          schedule_forecast_view(user, schedule_id)
    \/ \E user \in {ZonalAdmin1, ZonalAdmin2}, schedule_id \in ScheduleIds :
          schedule_load_prediction(user, schedule_id)
    \/ \E user \in {ZonalAdmin1, Superuser} : zonal_demand_alerts(user, today)

SpecForecast == InitForecast /\ [][NextForecast]_vars

----------------------------------------------------------------------------
(* Spec: riders, operators, the alert refresh and the spare dispatch, around one  *)
(* trip under way (35 on board of 40 seats, bus 1 running) and one idle bus       *)

\* (boarding stop, date of travel) of the pre-informs riders file, 8 passengers each
RiderTrips == {<<3, 1>>, <<3, 2>>, <<6, 1>>}
RiderCounts == {8}
Operators == {ZonalAdmin1, ZonalAdmin2, Superuser}
Dispatchers == {ZonalAdmin2, Superuser}
DispatchDates == {1}
DispatchTimes == {1, None}

Init ==
    /\ today = 1
    /\ stops = StopTable
    /\ buses = [b \in Buses |->
                  IF b = 1 THEN BusRow(DefaultCapacity, TRUE, 1, 1)
                  ELSE BusRow(DefaultCapacity, FALSE, None, None)]
    /\ schedules = {ScheduleRow1(DefaultCapacity, 35, 0)}
    /\ preinforms = {}
    /\ alerts = {}
    /\ response = NoResponse
    /\ inflight = NoRequests

Next ==
    \/ \E trip \in RiderTrips, passenger_count \in RiderCounts :
          create_preinform(trip[1], trip[2], passenger_count)
    \/ \E user \in Operators, preinform_id \in 1..MaxPreInforms :
          mark_preinform_noted(user, preinform_id)
    \/ \E user \in Operators, preinform_id \in 1..MaxPreInforms :
          cancel_preinform(user, preinform_id)
    \/ \E user \in Operators, selected_date \in Dates :
          zonal_demand_alerts(user, selected_date)
    \/ \E user \in Dispatchers, alert_id \in 1..MaxAlerts, bus_id \in Buses,
          driver_id \in Drivers, sched_date \in DispatchDates,
          departure_time \in DispatchTimes :
          dispatch_spare_bus(user, alert_id, bus_id, driver_id, sched_date, departure_time)

Spec == Init /\ [][Next]_vars

----------------------------------------------------------------------------
(* SpecTrips: the drivers of the trips and the dispatcher, around one trip  *)
(* not yet started and the demand alert of one noted pre-inform at stop 3   *)

TripCounts == {-1, 35}
TripPositions == {0, 1}
TripDispatchTimes == {1}

NotedAtStop3 == {NewPreInform({}, 3, 1, 8, "noted")}

InitTrips ==
    /\ today = 1
    /\ stops = StopTable
    /\ buses = [b \in Buses |-> BusRow(DefaultCapacity, FALSE, None, None)]
    /\ schedules = {ScheduleRow1(DefaultCapacity, 0, 0)}
    /\ preinforms = NotedAtStop3
    /\ alerts = generate_demand_alerts({}, NotedAtStop3, 1, 1)
    /\ response = NoResponse
    /\ inflight = NoRequests

NextTrips ==
    \/ \E user \in Drivers, schedule_id \in 1..MaxSchedules,
          stop_sequence \in 0..MaxStopSequence :
          update_current_stop(user, schedule_id, stop_sequence)
    \/ \E user \in Drivers, schedule_id \in 1..MaxSchedules, count \in TripCounts :
          update_passenger_count(user, schedule_id, count)
    \/ \E user \in Drivers, bus_id \in Buses, schedule_id \in 1..MaxSchedules,
          position \in TripPositions :
          update_bus_location(user, bus_id, schedule_id, position)
    \/ \E alert_id \in 1..2, bus_id \in Buses, driver_id \in Drivers,
          sched_date \in DispatchDates, departure_time \in TripDispatchTimes :
          dispatch_spare_bus(Superuser, alert_id, bus_id, driver_id,
                             sched_date, departure_time)

SpecTrips == InitTrips /\ [][NextTrips]_vars

----------------------------------------------------------------------------
(* SpecLevel: DemandAlert.get_level read on two alerts of drawn counts      *)

\* The ladder of the method's docstring: 20, 40, 60
get_levelDocstring(alert) ==
    LET count == IF alert.number_of_people = None THEN 0 ELSE alert.number_of_people
    IN  IF count >= 60 THEN "critical"
        ELSE IF count >= 40 THEN "high"
        ELSE IF count >= 20 THEN "medium"
        ELSE "normal"

\* demand/models.py DemandAlert.get_level; count = self.number_of_people or 0
get_level(alert) ==
    LET count == IF alert.number_of_people = None THEN 0 ELSE alert.number_of_people
    IN  IF count >= 50 THEN "critical"
        ELSE IF count >= 25 THEN "high"
        ELSE IF count >= 10 THEN "medium"
        ELSE "normal"

\* alert.get_level() on the row of alert_id
read_level(alert_id) ==
    /\ alert_id \in AlertIds(alerts)
    /\ response' = Answer("get_level", 200, TRUE,
          [alert_id |-> alert_id,
           number_of_people |-> AlertRow(alert_id).number_of_people,
           level |-> get_level(AlertRow(alert_id))])
    /\ UNCHANGED <<inflight, today, stops, preinforms, schedules, buses, alerts>>

LevelCounts == {None} \cup 0..MaxPeople
SecondCounts == {9, 10, 50}

InitLevel ==
    /\ today = 1
    /\ stops = StopTable
    /\ buses = [b \in Buses |-> BusRow(DefaultCapacity, FALSE, None, None)]
    /\ schedules = {ScheduleRow1(DefaultCapacity, 0, 0)}
    /\ preinforms = {}
    /\ \E first \in LevelCounts, second \in SecondCounts :
          alerts = CreateAlert(CreateAlert({}, 3, first, <<>>), 4, second, <<>>)
    /\ response = NoResponse
    /\ inflight = NoRequests

NextLevel == \E alert_id \in 1..2 : read_level(alert_id)

SpecLevel == InitLevel /\ [][NextLevel]_vars

----------------------------------------------------------------------------
(* SpecDispatch: the dispatch page alone, around one trip under way on bus 1 *)
(* and the demand alert of one noted pre-inform at stop 3; bus 2 is idle,    *)
(* active or not, with 30 or 40 seats                                        *)

SpareCapacities == {30, DefaultCapacity}
SpareTimes == {1, 2, None}

InitDispatch ==
    /\ today = 1
    /\ stops = StopTable
    /\ \E capacity \in SpareCapacities, is_active \in BOOLEAN :
          buses = [b \in Buses |->
                     IF b = 1 THEN BusRow(DefaultCapacity, TRUE, 1, 1)
                     ELSE [BusRow(capacity, FALSE, None, None)
                              EXCEPT !.is_active = is_active]]
    /\ schedules = {ScheduleRow1(DefaultCapacity, 35, 2)}
    /\ preinforms = NotedAtStop3
    /\ alerts = generate_demand_alerts({}, NotedAtStop3, 1, 1)
    /\ response = NoResponse
    /\ inflight = NoRequests

NextDispatch ==
    \E user \in Operators, alert_id \in 1..2, bus_id \in Buses, driver_id \in Drivers,
       sched_date \in DispatchDates, departure_time \in SpareTimes :
       dispatch_spare_bus(user, alert_id, bus_id, driver_id, sched_date, departure_time)

SpecDispatch == InitDispatch /\ [][NextDispatch]_vars

----------------------------------------------------------------------------
(* SpecRaceDispatch: two dispatch_spare_bus requests served at once.  Each  *)
(* database statement of the handler is one step; nothing in the handler    *)
(* holds a transaction or a lock across them.                               *)

Requests == {1, 2}
RaceTimes == {1, 2}

\* The unique constraints never fire
IntegrityErrorNever(bus_id, driver_id, sched_date, departure_time) == FALSE

\* unique_together of Schedule, enforced by the database inside the INSERT
IntegrityErrorOnCreate(bus_id, driver_id, sched_date, departure_time) ==
    \/ BusSlotTaken(bus_id, sched_date, departure_time)
    \/ DriverSlotTaken(driver_id, sched_date, departure_time)

DispatchRequest(bus_id, driver_id, departure_time) ==
    [pc |-> "load", alert_id |-> 1, bus_id |-> bus_id, driver_id |-> driver_id,
     sched_date |-> 1, departure_time |-> departure_time,
     alert_notes |-> <<>>, schedule |-> None, answer |-> ""]

\* alert = get_object_or_404(DemandAlert, id=alert_id): the row as it is now
dispatch_load(r) ==
    /\ inflight[r].pc = "load"
    /\ inflight' = [inflight EXCEPT ![r] =
          [@ EXCEPT !.pc = "lookup",
                    !.alert_notes = AlertRow(inflight[r].alert_id).admin_notes]]
    /\ UNCHANGED <<today, stops, preinforms, schedules, buses, alerts, response>>

\* existing_schedule = Schedule.objects.filter(bus, date, departure_time).first()
dispatch_lookup(r) ==
    LET q == inflight[r]
    IN  /\ q.pc = "lookup"
        /\ IF ExistingSchedule(q.bus_id, q.sched_date, q.departure_time)
           THEN /\ inflight' = [inflight EXCEPT ![r] =
                      [@ EXCEPT !.pc = "done", !.answer = "conflict"]]
                /\ response' = [AnswerError("dispatch_spare_bus", 200, "conflict")
                      EXCEPT !.value = [bus |-> q.bus_id, date |-> q.sched_date,
                                        departure_time |-> q.departure_time]]
           ELSE /\ inflight' = [inflight EXCEPT ![r] = [@ EXCEPT !.pc = "create"]]
                /\ UNCHANGED response
        /\ UNCHANGED <<today, stops, preinforms, schedules, buses, alerts>>

\* schedule = Schedule.objects.create(...)
dispatch_create(r) ==
    LET q == inflight[r]
    IN  /\ q.pc = "create"
        /\ IF IntegrityErrorOnCreate(q.bus_id, q.driver_id, q.sched_date,
                                     q.departure_time)
           THEN /\ inflight' = [inflight EXCEPT ![r] =
                      [@ EXCEPT !.pc = "done", !.answer = "IntegrityError"]]
                /\ response' = AnswerError("dispatch_spare_bus", 500, "IntegrityError")
                /\ UNCHANGED schedules
           ELSE LET schedule == SpareSchedule(AlertRow(q.alert_id), q.bus_id,
                                    q.driver_id, q.sched_date, q.departure_time)
                IN  /\ schedules' = schedules \cup {schedule}
                    /\ inflight' = [inflight EXCEPT ![r] =
                          [@ EXCEPT !.pc = "mark_bus", !.schedule = schedule.id]]
                    /\ UNCHANGED response
        /\ UNCHANGED <<today, stops, preinforms, buses, alerts>>

\* bus_obj.save(update_fields=["is_running", "current_route", "current_schedule"])
dispatch_mark_bus(r) ==
    LET q == inflight[r]
    IN  /\ q.pc = "mark_bus"
        /\ buses' = [buses EXCEPT ![q.bus_id] = RunningOn(@, ScheduleRow(q.schedule))]
        /\ inflight' = [inflight EXCEPT ![r] = [@ EXCEPT !.pc = "save_alert"]]
        /\ UNCHANGED <<today, stops, preinforms, schedules, alerts, response>>

\* alert.save(update_fields=["admin_notes", "status"]) with the notes as loaded
dispatch_save_alert(r) ==
    LET q == inflight[r]
        row == AlertRow(q.alert_id)
    IN  /\ q.pc = "save_alert"
        /\ alerts' = (alerts \ {row}) \cup
              {DispatchedAlert([row EXCEPT !.admin_notes = q.alert_notes], q.schedule)}
        /\ inflight' = [inflight EXCEPT ![r] =
              [@ EXCEPT !.pc = "done", !.answer = "dispatched"]]
        /\ response' = Redirect("dispatch_spare_bus")
        /\ UNCHANGED <<today, stops, preinforms, schedules, buses>>

InitRaceDispatch ==
    /\ today = 1
    /\ stops = StopTable
    /\ buses = [b \in Buses |->
                  IF b = 1 THEN BusRow(DefaultCapacity, TRUE, 1, 1)
                  ELSE BusRow(DefaultCapacity, FALSE, None, None)]
    /\ schedules = {ScheduleRow1(DefaultCapacity, 35, 2)}
    /\ preinforms = NotedAtStop3
    /\ alerts = generate_demand_alerts({}, NotedAtStop3, 1, 1)
    /\ response = NoResponse
    /\ inflight \in [Requests -> {DispatchRequest(b, d, t) :
                          b \in Buses, d \in Drivers, t \in RaceTimes}]

NextRaceDispatch ==
    \/ \E r \in Requests : dispatch_load(r)
    \/ \E r \in Requests : dispatch_lookup(r)
    \/ \E r \in Requests : dispatch_create(r)
    \/ \E r \in Requests : dispatch_mark_bus(r)
    \/ \E r \in Requests : dispatch_save_alert(r)

SpecRaceDispatch == InitRaceDispatch /\ [][NextRaceDispatch]_vars

----------------------------------------------------------------------------
(* SpecRaceStop: two update_current_stop requests of the trip's driver on   *)
(* schedule 1 served at once                                                *)

StopRequest(stop_sequence) ==
    [pc |-> "load", schedule_id |-> 1, stop_sequence |-> stop_sequence,
     old_seq |-> None, answer |-> ""]

\* schedule = get_object_or_404(Schedule, id=schedule_id);
\* old_seq = schedule.current_stop_sequence or 0
stop_load(r) ==
    /\ inflight[r].pc = "load"
    /\ inflight' = [inflight EXCEPT ![r] =
          [@ EXCEPT !.pc = "compare",
                    !.old_seq = ScheduleRow(inflight[r].schedule_id).current_stop_sequence]]
    /\ UNCHANGED <<today, stops, preinforms, schedules, buses, alerts, response>>

\* if stop_sequence < old_seq: answer success = False with old_seq
stop_compare(r) ==
    LET q == inflight[r]
    IN  /\ q.pc = "compare"
        /\ IF IsBackwardUpdate(q.stop_sequence, q.old_seq)
           THEN /\ inflight' = [inflight EXCEPT ![r] =
                      [@ EXCEPT !.pc = "done", !.answer = "ignored"]]
                /\ response' = Answer("update_current_stop", 200, FALSE,
                                      [schedule_id |-> q.schedule_id,
                                       stop_sequence |-> q.stop_sequence,
                                       current_stop_sequence |-> q.old_seq])
           ELSE /\ inflight' = [inflight EXCEPT ![r] = [@ EXCEPT !.pc = "save"]]
                /\ UNCHANGED response
        /\ UNCHANGED <<today, stops, preinforms, schedules, buses, alerts>>

\* schedule.current_stop_sequence = stop_sequence;
\* schedule.save(update_fields=["current_stop_sequence"])
stop_save(r) ==
    LET q == inflight[r]
        row == ScheduleRow(q.schedule_id)
    IN  /\ q.pc = "save"
        /\ schedules' = (schedules \ {row}) \cup
              {SaveCurrentStop(row, q.stop_sequence)}
        /\ inflight' = [inflight EXCEPT ![r] =
              [@ EXCEPT !.pc = "done", !.answer = "updated"]]
        /\ response' = Answer("update_current_stop", 200, TRUE,
                              [schedule_id |-> q.schedule_id,
                               stop_sequence |-> q.stop_sequence,
                               current_stop_sequence |-> q.stop_sequence])
        /\ UNCHANGED <<today, stops, preinforms, buses, alerts>>

InitRaceStop ==
    /\ today = 1
    /\ stops = StopTable
    /\ buses = [b \in Buses |->
                  IF b = 1 THEN BusRow(DefaultCapacity, TRUE, 1, 1)
                  ELSE BusRow(DefaultCapacity, FALSE, None, None)]
    /\ \E current_stop_sequence \in 0..MaxStopSequence :
          schedules = {ScheduleRow1(DefaultCapacity, 35, current_stop_sequence)}
    /\ preinforms = {}
    /\ alerts = {}
    /\ response = NoResponse
    /\ inflight \in [Requests -> {StopRequest(n) : n \in 1..MaxStopSequence}]

NextRaceStop ==
    \/ \E r \in Requests : stop_load(r)
    \/ \E r \in Requests : stop_compare(r)
    \/ \E r \in Requests : stop_save(r)

SpecRaceStop == InitRaceStop /\ [][NextRaceStop]_vars

----------------------------------------------------------------------------
(* SpecRaceRefresh: two calls of one generator of alert_engine.py for the   *)
(* same date and zone served at once.  generator is "demand" for            *)
(* generate_demand_alerts and "prediction" for generate_prediction_alerts.  *)

RefreshRequest(generator, for_date, zone) ==
    [pc |-> "exists", generator |-> generator, for_date |-> for_date, zone |-> zone]

\* if not qs.exists(): return []      (demand)
\* if not schedules.exists(): return []   (prediction)
refresh_exists(r) ==
    LET q == inflight[r]
        empty == IF q.generator = "demand"
                 THEN DemandQs(preinforms, q.for_date, q.zone) = {}
                 ELSE PredictionQs(q.for_date, q.zone) = {}
    IN  /\ q.pc = "exists"
        /\ inflight' = [inflight EXCEPT ![r] =
              [@ EXCEPT !.pc = IF empty THEN "done" ELSE "delete"]]
        /\ UNCHANGED <<today, stops, preinforms, schedules, buses, alerts, response>>

\* base_alerts.delete()
refresh_delete(r) ==
    LET q == inflight[r]
        after == IF q.generator = "demand"
                 THEN DemandDelete(alerts, q.for_date, q.zone)
                 ELSE PredictionDelete(alerts, q.for_date, q.zone)
    IN  /\ q.pc = "delete"
        /\ alerts' = after
        /\ schedules' = NullDeletedAlerts(schedules, alerts, after)
        /\ inflight' = [inflight EXCEPT ![r] = [@ EXCEPT !.pc = "create"]]
        /\ UNCHANGED <<today, stops, preinforms, buses, response>>

\* the creation loop: the grouped query is evaluated when the loop starts
refresh_create(r) ==
    LET q == inflight[r]
        grouped == DemandGroups(preinforms, q.for_date, q.zone)
        ordered == OrderSchedules(PredictionQs(q.for_date, q.zone))
    IN  /\ q.pc = "create"
        /\ alerts' = IF q.generator = "demand"
                     THEN DemandCreateLoop(alerts, preinforms, q.for_date, q.zone,
                                           grouped, Len(grouped))
                     ELSE PredictionScheduleLoop(alerts, q.for_date, ordered, Len(ordered))
        /\ inflight' = [inflight EXCEPT ![r] = [@ EXCEPT !.pc = "done"]]
        /\ UNCHANGED <<today, stops, preinforms, schedules, buses, response>>

\* Noted pre-informs of date 1 on route 1, ahead of the bus
RefreshPreInformChoices ==
    {<<3, 8>>, <<3, 5>>, <<4, 8>>}

InitRaceRefresh ==
    /\ today = 1
    /\ stops = StopTable
    /\ buses = [b \in Buses |->
                  IF b = 1 THEN BusRow(DefaultCapacity, TRUE, 1, 1)
                  ELSE BusRow(DefaultCapacity, FALSE, None, None)]
    /\ schedules = {ScheduleRow1(DefaultCapacity, 35, 2)}
    /\ \E c \in RefreshPreInformChoices :
          preinforms = {NewPreInform({}, c[1], 1, c[2], "noted")}
    /\ \E refreshed \in BOOLEAN :
          alerts = IF refreshed THEN RefreshAlerts({}, 1, None) ELSE {}
    /\ response = NoResponse
    /\ \E generator \in {"demand", "prediction"} : \E zone \in {None, 1} :
          inflight = [r \in Requests |-> RefreshRequest(generator, 1, zone)]

NextRaceRefresh ==
    \/ \E r \in Requests : refresh_exists(r)
    \/ \E r \in Requests : refresh_delete(r)
    \/ \E r \in Requests : refresh_create(r)

SpecRaceRefresh == InitRaceRefresh /\ [][NextRaceRefresh]_vars

----------------------------------------------------------------------------
(* SpecZones: the operators of two zones and the superuser refresh alerts   *)
(* while pre-informs are open in both zones                                 *)

\* <<boarding stop, passenger_count>> of the pre-inform of zone 1 (route 1)
ZonePreInformChoices == {<<3, 8>>, <<3, 5>>, <<4, 8>>}

\* The pre-inform of zone 2 boards at stop 6, the first stop of route 2
InitZones ==
    /\ today = 1
    /\ stops = StopTable
    /\ buses = [b \in Buses |->
                  IF b = 1 THEN BusRow(DefaultCapacity, TRUE, 1, 1)
                  ELSE BusRow(DefaultCapacity, FALSE, None, None)]
    /\ schedules = {ScheduleRow1(DefaultCapacity, 35, 2)}
    /\ \E c \in ZonePreInformChoices : \E s1, s2 \in {"pending", "noted"} :
          LET first == NewPreInform({}, c[1], 1, c[2], s1)
          IN  preinforms = {first, NewPreInform({first}, 6, 1, 8, s2)}
    /\ alerts = {}
    /\ response = NoResponse
    /\ inflight = NoRequests

NextZones ==
    \/ \E user \in Operators, preinform_id \in 1..MaxPreInforms :
          mark_preinform_noted(user, preinform_id)
    \/ \E user \in Operators, preinform_id \in 1..MaxPreInforms :
          cancel_preinform(user, preinform_id)
    \/ \E user \in Operators, selected_date \in Dates :
          zonal_demand_alerts(user, selected_date)

SpecZones == InitZones /\ [][NextZones]_vars

----------------------------------------------------------------------------
(* SpecStart: a trip and a spare dispatched at stop 2 are driven while the  *)
(* zonal admin refreshes the alerts                                         *)

NotedAtStop2 == {NewPreInform({}, 2, 1, 8, "noted")}

InitStart ==
    /\ today = 1
    /\ stops = StopTable
    /\ buses = [b \in Buses |-> BusRow(DefaultCapacity, FALSE, None, None)]
    /\ schedules = {ScheduleRow1(DefaultCapacity, 0, 0)}
    /\ preinforms = NotedAtStop2
    /\ alerts = generate_demand_alerts({}, NotedAtStop2, 1, 1)
    /\ response = NoResponse
    /\ inflight = NoRequests

NextStart ==
    \/ \E user \in Drivers, schedule_id \in 1..MaxSchedules,
          stop_sequence \in 1..MaxStopSequence :
          update_current_stop(user, schedule_id, stop_sequence)
    \/ \E user \in Drivers, schedule_id \in 1..MaxSchedules :
          update_passenger_count(user, schedule_id, 35)
    \/ \E user \in Drivers, bus_id \in Buses, schedule_id \in 1..MaxSchedules :
          update_bus_location(user, bus_id, schedule_id, 1)
    \/ \E alert_id \in 1..MaxAlerts, bus_id \in Buses, driver_id \in Drivers :
          dispatch_spare_bus(Superuser, alert_id, bus_id, driver_id, 1, 1)
    \/ zonal_demand_alerts(ZonalAdmin1, 1)

SpecStart == InitStart /\ [][NextStart]_vars

----------------------------------------------------------------------------
(* SpecFleet: an operator edits a bus (zonaladmin/views.py edit_bus, served *)
(* step by step) while drivers report positions and a spare is dispatched   *)

EditCapacities == {30, DefaultCapacity}

EditRequest(bus_id, capacity, is_active) ==
    [pc |-> "load", bus_id |-> bus_id, capacity |-> capacity,
     is_active |-> is_active, bus |-> None]

\* bus = get_object_or_404(Bus, id=bus_id)
edit_bus_load(r) ==
    /\ inflight[r].pc = "load"
    /\ inflight' = [inflight EXCEPT ![r] =
          [@ EXCEPT !.pc = "save", !.bus = buses[inflight[r].bus_id]]]
    /\ UNCHANGED <<today, stops, preinforms, schedules, buses, alerts, response>>

\* bus.capacity = int(capacity); bus.is_active = is_active; bus.save()
\* save() without update_fields writes every field of the loaded row
edit_bus_save(r) ==
    LET q == inflight[r]
    IN  /\ q.pc = "save"
        /\ buses' = [buses EXCEPT ![q.bus_id] =
              [q.bus EXCEPT !.capacity = q.capacity, !.is_active = q.is_active]]
        /\ inflight' = [inflight EXCEPT ![r] = [@ EXCEPT !.pc = "done"]]
        /\ response' = Redirect("edit_bus")
        /\ UNCHANGED <<today, stops, preinforms, schedules, alerts>>

InitFleet ==
    /\ today = 1
    /\ stops = StopTable
    /\ buses = [b \in Buses |-> BusRow(DefaultCapacity, FALSE, None, None)]
    /\ schedules = {ScheduleRow1(DefaultCapacity, 0, 0)}
    /\ preinforms = NotedAtStop3
    /\ alerts = generate_demand_alerts({}, NotedAtStop3, 1, 1)
    /\ response = NoResponse
    /\ \E b \in Buses, c \in EditCapacities, a \in BOOLEAN :
          inflight = <<EditRequest(b, c, a)>>

NextFleet ==
    \/ \E r \in DOMAIN inflight : edit_bus_load(r)
    \/ \E r \in DOMAIN inflight : edit_bus_save(r)
    \/ \E user \in Drivers, bus_id \in Buses, schedule_id \in 1..MaxSchedules :
          update_bus_location(user, bus_id, schedule_id, 1)
    \/ \E bus_id \in Buses, driver_id \in Drivers :
          dispatch_spare_bus(Superuser, 1, bus_id, driver_id, 1, 1)

SpecFleet == InitFleet /\ [][NextFleet]_vars

----------------------------------------------------------------------------
(* Properties of the forecast (SpecForecast)                               *)

ForecastAnswered ==
    response.op = "schedule_forecast_view" /\ response.status = 200

LoadAnswered ==
    response.op = "schedule_load_prediction" /\ response.status = 200

\* The sequences of the entries of a forecast that exceed its capacity
OverCapacitySequences(r) ==
    {r.future_stops[i].sequence : i \in
        {j \in 1..Len(r.future_stops) : r.future_stops[j].predicted_after > r.capacity}}

\* C3: in a forecast, will_overflow is false exactly when no entry's predicted_after
\* exceeds the capacity; when it is true, overflow_from_stop_sequence is the least
\* sequence of the entries that exceed it and every entry before it has
\* overflow = false.
C3_FirstOverflowCorrect ==
    ForecastAnswered =>
        LET r == response.value
            over == OverCapacitySequences(r)
        IN  /\ r.will_overflow <=> over # {}
            /\ ~r.will_overflow => r.overflow_from_stop_sequence = None
            /\ r.will_overflow =>
                 /\ r.overflow_from_stop_sequence \in over
                 /\ \A q \in over : r.overflow_from_stop_sequence <= q
                 /\ \A i \in 1..Len(r.future_stops) :
                       r.future_stops[i].sequence < r.overflow_from_stop_sequence
                          => ~r.future_stops[i].overflow

\* A forecast whose first overflow (stop 4) follows stops within capacity and is
\* followed by another stop over capacity
C3_Witness ==
    /\ ForecastAnswered
    /\ response.value.will_overflow
    /\ response.value.overflow_from_stop_sequence = 4
    /\ Len(response.value.future_stops) = 4
    /\ ~response.value.future_stops[1].overflow
    /\ response.value.future_stops[4].overflow

\* C4: a forecast has exactly one entry per stop of the route after the current
\* stop, in ascending sequence order, and each entry's predicted_after is
\* current_passengers plus the passenger counts of the route's pre-informs of that
\* date boarding after the current stop and up to that entry's stop.
C4_RunningSum ==
    ForecastAnswered =>
        LET r == response.value
            schedule == ScheduleRow(r.schedule_id)
            fs == r.future_stops
            remaining == {s \in stops : s.route = schedule.route
                                        /\ s.sequence > schedule.current_stop_sequence}
        IN  /\ Len(fs) = Cardinality(remaining)
            /\ {fs[i].sequence : i \in 1..Len(fs)} = {s.sequence : s \in remaining}
            /\ \A i, j \in 1..Len(fs) : i < j => fs[i].sequence < fs[j].sequence
            /\ \A i \in 1..Len(fs) :
                 fs[i].predicted_after = schedule.current_passengers +
                    SumPassengerCount({p \in preinforms :
                        /\ p.route = schedule.route
                        /\ p.date_of_travel = schedule.date
                        /\ StopRow(stops, p.boarding_stop).sequence
                              > schedule.current_stop_sequence
                        /\ StopRow(stops, p.boarding_stop).sequence <= fs[i].sequence})

\* The example: 30 on board at stop 1, +5 at stop 3, +8 at stop 4: 30, 35, 43, 43
C4_Witness ==
    /\ ForecastAnswered
    /\ response.value.capacity = DefaultCapacity
    /\ response.value.current_passengers = 30
    /\ response.value.current_stop_sequence = 1
    /\ [i \in 1..Len(response.value.future_stops) |->
            response.value.future_stops[i].sequence] = <<2, 3, 4, 5>>
    /\ [i \in 1..Len(response.value.future_stops) |->
            response.value.future_stops[i].predicted_after] = <<30, 35, 43, 43>>

\* C5: in both forecasts the predicted load never decreases from one entry to the
\* next, and the first entry's load is at least current_passengers.
C5_MonotonicForecast ==
    /\ ForecastAnswered =>
         LET fs == response.value.future_stops
         IN  /\ \A i \in 1..(Len(fs) - 1) :
                   fs[i].predicted_after <= fs[i + 1].predicted_after
             /\ fs # <<>> => fs[1].predicted_after >= response.value.current_passengers
    /\ LoadAnswered =>
         LET rows == response.value.rows
         IN  /\ \A i \in 1..(Len(rows) - 1) :
                   rows[i].expected_load <= rows[i + 1].expected_load
             /\ rows # <<>> => rows[1].expected_load >= response.value.base_passengers

\* A forecast whose load rises twice along the remaining stops
C5_Witness ==
    /\ ForecastAnswered
    /\ Len(response.value.future_stops) = 4
    /\ response.value.future_stops[1].predicted_after
          < response.value.future_stops[2].predicted_after
    /\ response.value.future_stops[2].predicted_after
          < response.value.future_stops[3].predicted_after

\* The prediction alerts that name schedule id in their note
PredictionAlertsOf(A, id) ==
    {a \in A : \E i \in 1..Len(a.admin_notes) :
        a.admin_notes[i].kind = "prediction" /\ a.admin_notes[i].schedule = id}

\* C6: when the resolved capacity of a schedule is <= 0 (total_seats = 0 and bus
\* capacity 0), its forecast marks no stop over capacity and names no first overflow
\* stop, and no predicted-overflow alert exists for it.
C6_ZeroCapacityNeverOverflows ==
    /\ (ForecastAnswered /\ response.value.capacity <= 0) =>
         /\ ~response.value.will_overflow
         /\ response.value.overflow_from_stop_sequence = None
         /\ \A i \in 1..Len(response.value.future_stops) :
               ~response.value.future_stops[i].overflow
    /\ \A s \in schedules :
         (s.total_seats = 0 /\ buses[s.bus].capacity = 0)
            => PredictionAlertsOf(alerts, s.id) = {}

\* C9: after a refresh, each running schedule of the date has exactly one prediction
\* alert if a row of its forecast exceeds the capacity, at the first such row's stop
\* with that row's load, and none otherwise.
C9_OneOverflowAlertPerTrip ==
    response.op = "zonal_demand_alerts" =>
        \A s \in PredictionQs(response.value.date, response.value.zone) :
            LET data == compute_bus_load_for_schedule(s)
                over == {i \in 1..Len(data.rows) :
                            data.rows[i].expected_load > data.capacity}
                created == {a \in PredictionAlertsOf(alerts, s.id) :
                               a.status = "reported"}
            IN  IF over = {} THEN created = {}
                ELSE LET first == CHOOSE i \in over : \A j \in over : i <= j
                     IN  /\ Cardinality(created) = 1
                         /\ \A a \in created :
                               /\ a.stop = data.rows[first].stop_id
                               /\ a.number_of_people = data.rows[first].expected_load

----------------------------------------------------------------------------
(* Properties of the alert refresh (Spec)                                  *)

\* The reported alerts that a generator wrote, without their ids
ReportedSystemAlerts(A) ==
    {a \in A : a.status = "reported" /\ NotesIContain(a.admin_notes, "Pre-Informs")}

AlertContent(a) ==
    [stop |-> a.stop, number_of_people |-> a.number_of_people,
     admin_notes |-> a.admin_notes]

\* C1: a refresh that follows a refresh of the same date and zone, with nothing
\* done in between, leaves the same reported system alerts (same stops, same
\* counts) and as many of them.
C1_IdempotentRefresh ==
    [][(/\ response.op = "zonal_demand_alerts"
        /\ response'.op = "zonal_demand_alerts"
        /\ response'.value.date = response.value.date
        /\ response'.value.zone = response.value.zone)
       => /\ {AlertContent(a) : a \in ReportedSystemAlerts(alerts')}
               = {AlertContent(a) : a \in ReportedSystemAlerts(alerts)}
          /\ Cardinality(ReportedSystemAlerts(alerts'))
               = Cardinality(ReportedSystemAlerts(alerts))]_vars

\* C2: a handler that runs a generator (zonal_demand_alerts, mark_preinform_noted)
\* keeps every alert whose status is no longer "reported" as it was.
C2_PreservedOperatorState ==
    [][response'.op \in {"zonal_demand_alerts", "mark_preinform_noted"}
       => \A a \in alerts : a.status # "reported" => a \in alerts']_vars

\* The declared-demand alerts of a travel date that are still reported
ReportedDemandAlerts(A, for_date) ==
    {a \in A : /\ a.status = "reported"
               /\ \E i \in 1..Len(a.admin_notes) :
                     /\ a.admin_notes[i].kind = "preinform"
                     /\ a.admin_notes[i].for_date = for_date}

\* C10: after a refresh of a date and zone, each stop of the zone has one reported
\* declared-demand alert of that date when noted pre-informs of the date board
\* there, carrying the sum of their passenger counts, and none otherwise.
C10_DemandAlertsMirrorNoted ==
    response.op = "zonal_demand_alerts" =>
        LET for_date == response.value.date
            zone == response.value.zone
        IN  \A stop \in {s \in stops : zone = None \/ RouteZone(s.route) = zone} :
               LET noted == {p \in preinforms : /\ p.status = "noted"
                                                /\ p.date_of_travel = for_date
                                                /\ p.boarding_stop = stop.id}
                   here == {a \in ReportedDemandAlerts(alerts, for_date) :
                               a.stop = stop.id}
               IN  IF SumPassengerCount(noted) > 0
                   THEN /\ Cardinality(here) = 1
                        /\ \A a \in here :
                              a.number_of_people = SumPassengerCount(noted)
                   ELSE here = {}

----------------------------------------------------------------------------
(* Properties of the trips (SpecTrips)                                     *)

\* C7: update_current_stop by the trip's driver with a stop_sequence below the
\* stored current_stop_sequence changes no schedule and answers 200 with
\* success = false and the stored sequence; with a stop_sequence at or above it,
\* it stores the new sequence, changes nothing else and answers success = true.
\* No step lowers the current_stop_sequence of a schedule.
C7_MonotonicPositionGuard ==
    /\ [][\A user \in Drivers, schedule_id \in ScheduleIds,
             stop_sequence \in 1..MaxStopSequence :
             (/\ ~NotAssignedDriver(ScheduleRow(schedule_id), user)
              /\ update_current_stop(user, schedule_id, stop_sequence))
             => LET schedule == ScheduleRow(schedule_id)
                IN  /\ response'.status = 200
                    /\ IF stop_sequence < schedule.current_stop_sequence
                       THEN /\ schedules' = schedules
                            /\ ~response'.success
                            /\ response'.value.current_stop_sequence
                                  = schedule.current_stop_sequence
                       ELSE /\ schedules' = (schedules \ {schedule}) \cup
                                  {[schedule EXCEPT
                                      !.current_stop_sequence = stop_sequence]}
                            /\ response'.success]_vars
    /\ [][\A s \in schedules : \A t \in schedules' :
             t.id = s.id => t.current_stop_sequence >= s.current_stop_sequence]_vars

\* An update to stop 1 or 2 was ignored: the trip stays at a later stop
C7_Witness ==
    /\ response.op = "update_current_stop"
    /\ response.status = 200
    /\ ~response.success
    /\ response.value.stop_sequence < response.value.current_stop_sequence
    /\ ScheduleRow(response.value.schedule_id).current_stop_sequence
          = response.value.current_stop_sequence

\* C8: dispatch_spare_bus on an existing alert with a bus, date and departure time
\* that a schedule already holds answers with the conflict error and leaves the
\* schedules, the buses and the alerts as they were; no step adds a schedule
\* on a (bus, date, departure time) that a schedule already held.
C8_DispatchConflictMutatesNothing ==
    /\ [][\A alert_id \in AlertIds(alerts), bus_id \in Buses, driver_id \in Drivers,
             sched_date \in DispatchDates, departure_time \in TripDispatchTimes :
             (/\ BusSlotTaken(bus_id, sched_date, departure_time)
              /\ dispatch_spare_bus(Superuser, alert_id, bus_id, driver_id,
                                    sched_date, departure_time))
             => /\ response'.status = 200
                /\ response'.error = "conflict"
                /\ UNCHANGED <<schedules, buses, alerts>>]_vars
    /\ [][\A n \in schedules' :
             n.id \notin ScheduleIds
                => ~BusSlotTaken(n.bus, n.date, n.departure_time)]_vars

\* The conflict was reported for the bus of the spare trip of a dispatched alert
C8_Witness ==
    /\ response.op = "dispatch_spare_bus"
    /\ response.error = "conflict"
    /\ \E s \in schedules : /\ s.is_spare_trip
                             /\ s.bus = response.value.bus
                             /\ s.date = response.value.date
                             /\ s.departure_time = response.value.departure_time
    /\ \E a \in alerts : a.status = "dispatched"

----------------------------------------------------------------------------
(* Properties of the dispatch (SpecDispatch)                               *)

\* The schedules of the next state that the current state does not hold
CreatedSchedules == {n \in schedules' : n.id \notin ScheduleIds}

\* C11: a step of dispatch_spare_bus that changes the schedules adds exactly one
\* schedule and touches no other; the new schedule names the alert whose row the
\* step rewrote, runs on the route of the alert's stop, has starting_stop_sequence
\* and current_stop_sequence equal to the sequence of that stop, total_seats and
\* available_seats equal to the capacity of its bus, no passengers on board, and
\* is flagged is_spare_trip.
C11_SpareTripStartsAtOverflowStop ==
    [][schedules' # schedules =>
         /\ schedules \subseteq schedules'
         /\ Cardinality(CreatedSchedules) = 1
         /\ \A n \in CreatedSchedules :
               /\ n.source_alert \in AlertIds(alerts)
               /\ \E a \in alerts' : a.id = n.source_alert /\ a \notin alerts
               /\ LET stop == StopRow(stops, AlertRow(n.source_alert).stop)
                  IN  /\ n.route = stop.route
                      /\ n.starting_stop_sequence = stop.sequence
                      /\ n.current_stop_sequence = stop.sequence
               /\ n.total_seats = buses[n.bus].capacity
               /\ n.available_seats = buses[n.bus].capacity
               /\ n.current_passengers = 0
               /\ n.is_spare_trip]_vars

\* A spare trip of the 30-seat bus 2 starting at stop 3 of route 1
C11_Witness ==
    /\ response.op = "dispatch_spare_bus"
    /\ \E s \in schedules :
          /\ s.is_spare_trip
          /\ s.bus = 2
          /\ s.total_seats = 30
          /\ s.starting_stop_sequence = 3
          /\ s.source_alert = 1

\* C12: the step that creates a spare schedule leaves that schedule's bus with
\* is_running = true, current_schedule = the new schedule and current_route = its
\* route, and leaves every other bus as it was.
C12_DispatchMarksBusRunning ==
    [][\A n \in CreatedSchedules :
          /\ buses'[n.bus].is_running
          /\ buses'[n.bus].current_schedule = n.id
          /\ buses'[n.bus].current_route = n.route
          /\ \A b \in Buses \ {n.bus} : buses'[b] = buses[b]]_vars

\* Bus 2, idle at the start, runs the spare trip it was dispatched on
C12_Witness ==
    \E s \in schedules :
        /\ s.is_spare_trip
        /\ s.bus = 2
        /\ buses[2].is_running
        /\ buses[2].current_schedule = s.id
        /\ buses[2].current_route = s.route

\* C13: the step that creates a spare schedule leaves the schedule's alert with
\* status "dispatched", the same stop and count, and admin_notes equal to the
\* previous admin_notes followed by the dispatch note of the new schedule.
C13_DispatchAppendsNote ==
    [][\A n \in CreatedSchedules :
          \E a \in alerts, b \in alerts' :
              /\ a.id = n.source_alert
              /\ b.id = a.id
              /\ b.status = "dispatched"
              /\ b.stop = a.stop
              /\ b.number_of_people = a.number_of_people
              /\ Len(b.admin_notes) = Len(a.admin_notes) + 1
              /\ SubSeq(b.admin_notes, 1, Len(a.admin_notes)) = a.admin_notes
              /\ b.admin_notes[Len(b.admin_notes)]
                    = NotePiece("dispatch", None, n.id, None)]_vars

\* An alert dispatched twice: the generator's note, then two dispatch notes
C13_Witness ==
    \E a \in alerts :
        /\ a.status = "dispatched"
        /\ Len(a.admin_notes) = 3
        /\ a.admin_notes[1].kind = "preinform"
        /\ a.admin_notes[2].kind = "dispatch"
        /\ a.admin_notes[3].kind = "dispatch"
        /\ a.admin_notes[2].schedule # a.admin_notes[3].schedule

\* C14: the step that creates a spare schedule takes a bus that was active and
\* not running before the step.
C14_SpareFromIdlePool ==
    [][\A n \in CreatedSchedules :
          buses[n.bus].is_active /\ ~buses[n.bus].is_running]_vars

\* C15: dispatch_spare_bus on an existing alert with a driver who already has a
\* schedule at that date and departure time, and a bus free at that time, answers
\* with the conflict error of the page and leaves the schedules, the buses and
\* the alerts as they were.
C15_DriverConflictSurfaced ==
    [][\A alert_id \in AlertIds(alerts), bus_id \in Buses, driver_id \in Drivers,
          sched_date \in DispatchDates, departure_time \in SpareTimes \ {None} :
          (/\ DriverSlotTaken(driver_id, sched_date, departure_time)
           /\ ~BusSlotTaken(bus_id, sched_date, departure_time)
           /\ dispatch_spare_bus(Superuser, alert_id, bus_id, driver_id,
                                 sched_date, departure_time))
          => /\ response'.status = 200
             /\ response'.error = "conflict"
             /\ UNCHANGED <<schedules, buses, alerts>>]_vars

----------------------------------------------------------------------------
(* Further properties of the forecast (SpecForecast)                       *)

\* The pending and noted pre-informs of a schedule's route and date that board at
\* a sequence in (from_seq, to_seq]
CountedPreInforms(schedule, from_seq, to_seq) ==
    {p \in preinforms :
        /\ p.status \in {"pending", "noted"}
        /\ p.route = schedule.route
        /\ p.date_of_travel = schedule.date
        /\ StopRow(stops, p.boarding_stop).sequence > from_seq
        /\ StopRow(stops, p.boarding_stop).sequence <= to_seq}

\* C16: in both forecasts the load predicted at a stop exceeds the passengers on
\* board by no more than the passenger counts of the pending and noted
\* pre-informs boarding up to that stop: cancelled and completed pre-informs add
\* nothing.
C16_OnlyPendingAndNotedCount ==
    /\ ForecastAnswered =>
         LET r == response.value
             schedule == ScheduleRow(r.schedule_id)
         IN  \A i \in 1..Len(r.future_stops) :
                r.future_stops[i].predicted_after <= schedule.current_passengers +
                   SumPassengerCount(CountedPreInforms(schedule,
                       schedule.current_stop_sequence, r.future_stops[i].sequence))
    /\ LoadAnswered =>
         LET r == response.value
             schedule == ScheduleRow(r.schedule_id)
         IN  \A i \in 1..Len(r.rows) :
                r.rows[i].expected_load <= r.base_passengers +
                   SumPassengerCount(CountedPreInforms(schedule, 0, r.rows[i].sequence))

----------------------------------------------------------------------------
(* Properties of the alert level (SpecLevel)                               *)

----------------------------------------------------------------------------
(* Further properties of the trips (SpecTrips)                             *)

\* C18: update_current_stop, update_passenger_count and update_bus_location with
\* well-formed input on an existing schedule, asked by a user who is neither the
\* schedule's driver nor a superuser, answer 403 and leave the schedules and the
\* buses as they were; no step that answers 403 changes any table.
C18_PermissionBeforeMutation ==
    /\ [][\A user \in Drivers, schedule_id \in ScheduleIds :
             (ScheduleRow(schedule_id).driver # user /\ ~IsSuperuser(user)) =>
                /\ \A stop_sequence \in 1..MaxStopSequence :
                      update_current_stop(user, schedule_id, stop_sequence)
                         => (response'.status = 403 /\ UNCHANGED <<schedules, buses>>)
                /\ \A count \in {c \in TripCounts : c >= 0} :
                      update_passenger_count(user, schedule_id, count)
                         => (response'.status = 403 /\ UNCHANGED <<schedules, buses>>)
                /\ \A bus_id \in Buses, position \in TripPositions \ {0} :
                      update_bus_location(user, bus_id, schedule_id, position)
                         => (response'.status = 403 /\ UNCHANGED <<schedules, buses>>)]_vars
    /\ [][response'.status = 403
             => UNCHANGED <<schedules, buses, alerts, preinforms>>]_vars

\* Driver 2 was refused on schedule 1, which driver 1 has taken to 35 passengers
\* at stop 2 on the located bus 1
C18_Witness ==
    /\ response.status = 403
    /\ response.op \in {"update_current_stop", "update_passenger_count",
                         "update_bus_location"}
    /\ \E s \in schedules : /\ s.id = 1
                             /\ s.driver = 1
                             /\ s.current_passengers = 35
                             /\ s.current_stop_sequence = 2
    /\ buses[1].is_running
    /\ buses[1].current_schedule = 1

----------------------------------------------------------------------------
(* Properties of the alert page (SpecForecast)                             *)

\* The alerts that a generator of the given kind wrote for a travel date, on
\* stops of the zone when a zone is given
AlertsOfOrigin(A, kind, for_date, zone) ==
    {a \in A : /\ a.admin_notes # <<>>
               /\ a.admin_notes[1].kind = kind
               /\ a.admin_notes[1].for_date = for_date
               /\ (zone = None \/ StopZone(stops, a.stop) = zone)}

\* C19: on the alert page of a date, every alert that generate_prediction_alerts
\* wrote for the date is in the prediction list and not in the pre-inform list,
\* and every alert that generate_demand_alerts wrote for it is in the pre-inform
\* list and not in the prediction list.
C19_ListingPartitionsByOrigin ==
    response.op = "zonal_demand_alerts" =>
        LET page == response.value
        IN  /\ \A a \in AlertsOfOrigin(alerts, "prediction", page.date, page.zone) :
                  /\ a.id \in page.prediction_alerts
                  /\ a.id \notin page.preinform_alerts
            /\ \A a \in AlertsOfOrigin(alerts, "preinform", page.date, page.zone) :
                  /\ a.id \in page.preinform_alerts
                  /\ a.id \notin page.prediction_alerts

----------------------------------------------------------------------------
(* Further properties of the alert refresh (Spec)                          *)

\* C20: a step that moves a pre-inform from "pending" to "noted" leaves a reported
\* declared-demand alert of its travel date at its boarding stop whose
\* number_of_people is the sum of the noted pre-informs of that date boarding
\* there, the moved one included.
C20_NotingTriggersRefresh ==
    [][\A p \in preinforms :
          (p.status = "pending"
             /\ \E q \in preinforms' : q.id = p.id /\ q.status = "noted")
          => \E a \in ReportedDemandAlerts(alerts', p.date_of_travel) :
                /\ a.stop = p.boarding_stop
                /\ a.number_of_people =
                      SumPassengerCount({q \in preinforms' :
                          /\ q.status = "noted"
                          /\ q.date_of_travel = p.date_of_travel
                          /\ q.boarding_stop = p.boarding_stop})]_vars

----------------------------------------------------------------------------
(* Properties of concurrent requests                                       *)

\* C21: in every state, under every interleaving of the steps of two
\* dispatch_spare_bus requests, no two schedules share a (bus, date,
\* departure_time) and no two share a (driver, date, departure_time).
C21_NoDoubleBooking ==
    \A s, t \in schedules :
        s # t =>
           /\ ~(s.bus = t.bus /\ s.date = t.date
                   /\ s.departure_time = t.departure_time)
           /\ ~(s.driver = t.driver /\ s.date = t.date
                   /\ s.departure_time = t.departure_time)

\* Two requests for bus 2 at time 2 both found no existing schedule; one created
\* the spare trip and the other was stopped by the unique constraint
C21_Witness ==
    /\ DOMAIN inflight = Requests
    /\ inflight[1].bus_id = 2 /\ inflight[2].bus_id = 2
    /\ inflight[1].departure_time = 2 /\ inflight[2].departure_time = 2
    /\ {inflight[1].answer, inflight[2].answer} = {"dispatched", "IntegrityError"}
    /\ \E s \in schedules : s.is_spare_trip /\ s.bus = 2 /\ s.departure_time = 2

\* C22: under every interleaving of the steps of two update_current_stop requests
\* on one schedule, no step lowers the stored current_stop_sequence, and once both
\* requests have finished it is no less than either requested sequence (with the
\* first part: it is the maximum of the initial value and the two requests).
C22_MonotonicUnderConcurrency ==
    /\ [][\A s \in schedules : \A t \in schedules' :
             t.id = s.id => t.current_stop_sequence >= s.current_stop_sequence]_vars
    /\ []((\A r \in DOMAIN inflight : inflight[r].pc = "done")
           => \A r \in DOMAIN inflight :
                 ScheduleRow(inflight[r].schedule_id).current_stop_sequence
                    >= inflight[r].stop_sequence)

\* The stops at which one call of the generator, run alone, places an alert
WarrantedStops(generator, for_date, zone) ==
    IF generator = "demand"
    THEN {a.stop : a \in generate_demand_alerts({}, preinforms, for_date, zone)}
    ELSE {a.stop : a \in generate_prediction_alerts({}, for_date, zone)}

\* C23: when two calls of the same generator for the same date and zone have both
\* finished, whatever the interleaving of their delete and create steps, every
\* stop that warrants an alert has exactly one alert of that generator for the
\* date, and every other stop has none.
C23_ConcurrentRefreshExact ==
    (/\ DOMAIN inflight = Requests
     /\ \A r \in Requests : "generator" \in DOMAIN inflight[r] /\ inflight[r].pc = "done")
    => LET q == inflight[1]
           origin == IF q.generator = "demand" THEN "preinform" ELSE "prediction"
       IN  \A t \in stops :
              Cardinality({a \in AlertsOfOrigin(alerts, origin, q.for_date, q.zone) :
                              a.stop = t.id})
                 = IF t.id \in WarrantedStops(q.generator, q.for_date, q.zone)
                   THEN 1 ELSE 0

----------------------------------------------------------------------------
(* Scope of a refresh                                                      *)

\* The alerts that a generator of the given kind wrote
AlertsWrittenBy(A, kind) ==
    {a \in A : a.admin_notes # <<>> /\ a.admin_notes[1].kind = kind}

\* C24: a call of generate_demand_alerts, for any date and zone, keeps every alert
\* that generate_prediction_alerts wrote as it was, a call of
\* generate_prediction_alerts keeps every alert that generate_demand_alerts wrote,
\* and mark_preinform_noted, which refreshes declared demand only, keeps the
\* prediction alerts in place.
C24_RefreshScopedByOrigin ==
    /\ [](\A for_date \in Dates : \A zone \in {None, 1, 2} :
            /\ AlertsWrittenBy(alerts, "prediction")
                  \subseteq generate_demand_alerts(alerts, preinforms, for_date, zone)
            /\ AlertsWrittenBy(alerts, "preinform")
                  \subseteq generate_prediction_alerts(alerts, for_date, zone))
    /\ [][response'.op = "mark_preinform_noted"
            => AlertsWrittenBy(alerts, "prediction") \subseteq alerts']_vars

\* The alerts at stops outside the zone
OtherZones(A, zone) == {a \in A : StopZone(stops, a.stop) # zone}

\* C25: a call of either generator with a zone Z, on any reachable alert table
\* and for any date, leaves the alerts at stops outside Z exactly as they were
\* (none deleted, none changed, none created), and so does the alert page of a
\* zonal admin, which runs both generators with the admin's zone.
C25_RefreshScopedByZone ==
    /\ [](\A for_date \in Dates : \A zone \in {1, 2} :
            /\ OtherZones(generate_demand_alerts(alerts, preinforms, for_date, zone), zone)
                  = OtherZones(alerts, zone)
            /\ OtherZones(generate_prediction_alerts(alerts, for_date, zone), zone)
                  = OtherZones(alerts, zone))
    /\ [][(response'.op = "zonal_demand_alerts" /\ response'.value.zone # None)
            => OtherZones(alerts', response'.value.zone)
                  = OtherZones(alerts, response'.value.zone)]_vars

\* The alert page of zone 1 has written the alerts of zone 1 while an alert of
\* zone 2, written before, is on the table
C25_Witness ==
    /\ response.op = "zonal_demand_alerts"
    /\ response.value.zone = 1
    /\ \E a \in alerts : StopZone(stops, a.stop) = 2 /\ a.id = 1
    /\ \E a \in alerts : StopZone(stops, a.stop) = 1 /\ a.id > 1

----------------------------------------------------------------------------
(* Properties of the start of a trip (SpecStart)                           *)

\* C26: no step (update_current_stop, update_passenger_count, update_bus_location,
\* a dispatch, an alert refresh) changes the starting_stop_sequence of a schedule
\* that exists, and a spare trip that still has its source alert starts at the
\* sequence of that alert's stop, wherever its current_stop_sequence has got to.
C26_StartingStopFixed ==
    /\ [][\A s \in schedules : \A t \in schedules' :
             t.id = s.id => t.starting_stop_sequence = s.starting_stop_sequence]_vars
    /\ [](\A s \in schedules :
            (s.is_spare_trip /\ s.source_alert # None)
            => s.starting_stop_sequence
                  = StopRow(stops, AlertRow(s.source_alert).stop).sequence)

\* The spare dispatched at stop 2 has been driven on to a later stop
C26_Witness ==
    \E s \in schedules :
        /\ s.is_spare_trip
        /\ s.source_alert # None
        /\ s.starting_stop_sequence = 2
        /\ s.current_stop_sequence > s.starting_stop_sequence
        /\ response.op = "update_current_stop"

\* C27: for a spare trip still standing where it was dispatched, the first entry
\* of future_stops of compute_future_load_for_schedule is the stop of its source
\* alert, and that entry counts the pre-informs of the trip's route and date that
\* board there.
C27_SpareForecastStartsAtOverflowStop ==
    \A s \in schedules :
        (/\ s.is_spare_trip
         /\ s.source_alert # None
         /\ s.current_stop_sequence = s.starting_stop_sequence)
        => LET forecast == compute_future_load_for_schedule(s)
               overflow_stop == StopRow(stops, AlertRow(s.source_alert).stop)
           IN  /\ forecast.future_stops # <<>>
               /\ forecast.future_stops[1].sequence = overflow_stop.sequence
               /\ forecast.future_stops[1].incoming_preinform
                     = SumPassengerCount({p \in preinforms :
                                             /\ p.route = s.route
                                             /\ p.date_of_travel = s.date
                                             /\ p.boarding_stop = overflow_stop.id})

----------------------------------------------------------------------------
(* Properties of the fleet (SpecTrips)                                     *)

\* C28: no two running buses have the same schedule as current_schedule.
C28_OneVehiclePerRunningTrip ==
    \A b1, b2 \in Buses :
        (/\ b1 # b2
         /\ buses[b1].is_running
         /\ buses[b2].is_running
         /\ buses[b1].current_schedule # None)
        => buses[b1].current_schedule # buses[b2].current_schedule

----------------------------------------------------------------------------
(* The two forecasts side by side (SpecForecast)                           *)

\* The rows of compute_bus_load_for_schedule that generate_prediction_alerts
\* takes as over capacity (load > cap)
OverflowRows(data) ==
    {k \in 1..Len(data.rows) : data.rows[k].expected_load > data.capacity}

\* C29: for every schedule, compute_bus_load_for_schedule has a row over capacity
\* exactly when compute_future_load_for_schedule says will_overflow, the first
\* such row is at overflow_from_stop_sequence, and no row over capacity is at a
\* stop at or before the schedule's current_stop_sequence.
C29_ForecastsAgree ==
    \A s \in schedules :
        LET data == compute_bus_load_for_schedule(s)
            forecast == compute_future_load_for_schedule(s)
            over == OverflowRows(data)
        IN  /\ (over # {}) = forecast.will_overflow
            /\ over # {} =>
                  /\ data.rows[CHOOSE k \in over : \A j \in over : k <= j].sequence
                        = forecast.overflow_from_stop_sequence
                  /\ \A k \in over : data.rows[k].sequence > s.current_stop_sequence

----------------------------------------------------------------------------
(* Properties of the fleet (SpecFleet)                                     *)

\* C30: no step takes a bus from is_running = true to is_running = false: a bus
\* once marked running is running in every later state, and so is never again
\* among the idle candidates (is_active and not is_running) of the dispatch page.
C30_BusNeverReturnsToIdle ==
    [][\A b \in Buses : buses[b].is_running => buses'[b].is_running]_vars

====
